---- MODULE Spec2Model ----
(***************************************************************************)
(* Model of FoodDesertAgent (agent/data_collection_agent.py): the          *)
(* collection loop run_collection, the collector collect_census_data with  *)
(* its synthetic fallback, the quality assessor assess_quality and the     *)
(* pacing controller adapt_strategy.                                       *)
(*                                                                         *)
(* Numbers.  Every numeric field value is kept in hundredths (5.0 is 500,  *)
(* a quality score of 0.65 is 65), so the one-decimal rounding of the      *)
(* synthetic poverty rate and the /100 of the score are exact.  The pacing *)
(* delay is an exact rational <<numerator, denominator>> in seconds.       *)
(***************************************************************************)
EXTENDS Integers, Sequences, FiniteSets, TLC

VARIABLES
    config,          \* self.config (the keys the agent reads)
    collected_data,  \* self.collected_data
    failed_tracts,   \* self.failed_tracts
    stats,           \* self.stats
    delay,           \* self.delay
    idx,             \* run_collection: 1-based position in census_tracts
    pc,              \* run_collection: the statement about to run
    response,        \* collect_census_data: how the last call ended
    demo_data,       \* run_collection: local demo_data (empty mapping: None)
    quality_score,   \* run_collection: local quality_score, in hundredths
    calls,           \* how often each callee of the loop body has run
    summary,         \* collection_summary.txt: its records and failed-tracts lines
    probe            \* the field dropped from a record under test, and the score before

vars == <<config, collected_data, failed_tracts, stats, delay, idx, pc, response,
          demo_data, quality_score, calls, summary, probe>>

----------------------------------------------------------------------------
(* Bounds of the model *)

\* Largest target_census_tracts the model configures.
MaxTracts == 3

\* Longest quality_scores history adapt_strategy is given on its own.
MaxScores == 6

----------------------------------------------------------------------------
(* Values of record fields: None, a number (hundredths), a string that     *)
(* float() parses (with the number it parses to), or any other string.     *)

None == [t |-> "none", n |-> 0, s |-> ""]
Num(x) == [t |-> "num", n |-> x, s |-> ""]
NumStr(x) == [t |-> "numstr", n |-> x, s |-> "#"]
Str(x) == [t |-> "str", n |-> 0, s |-> x]

\* x units, in hundredths
H(x) == x * 100

\* Python truthiness of a field value
Truthy(v) ==
    CASE v.t = "none" -> FALSE
      [] v.t = "num" -> v.n # 0
      [] OTHER -> v.s # ""

\* float(v) succeeds
Floatable(v) == v.t \in {"num", "numstr"}

\* the mapping without any key: what a falsy demo_data is modelled as
NoData == [f \in {} |-> None]

Put(data, field, v) == [f \in DOMAIN data \cup {field} |-> IF f = field THEN v ELSE data[f]]

Without(data, field) == [f \in DOMAIN data \ {field} |-> data[f]]

RECURSIVE SumSeq(_)
SumSeq(s) == IF s = <<>> THEN 0 ELSE Head(s) + SumSeq(Tail(s))

----------------------------------------------------------------------------
(* Exact rationals <<p, q>> with q > 0, for the pacing delay *)

RECURSIVE Gcd(_, _)
Gcd(a, b) == IF b = 0 THEN a ELSE Gcd(b, a % b)

Norm(r) == LET g == Gcd(r[1], r[2]) IN IF g = 0 THEN <<0, 1>> ELSE <<r[1] \div g, r[2] \div g>>

RMul(r, p, q) == Norm(<<r[1] * p, r[2] * q>>)

RLess(a, b) == a[1] * b[2] < b[1] * a[2]

RLeq(a, b) == a[1] * b[2] <= b[1] * a[2]

RMin(a, b) == IF RLess(b, a) THEN b ELSE a

RMax(a, b) == IF RLess(a, b) THEN b ELSE a

R(x) == <<x, 1>>

----------------------------------------------------------------------------
(* get_census_tracts: the static sample list, cut to the configured target *)

Tract(st, co, tr, nm) == [state |-> st, county |-> co, tract |-> tr, name |-> nm]

sample_tracts ==
    << Tract("17", "031", "770100", "Chicago, IL (Urban)"),
       Tract("06", "037", "207400", "Los Angeles, CA (Urban)"),
       Tract("36", "061", "008600", "Manhattan, NY (Urban)"),
       Tract("17", "031", "810600", "Chicago Suburbs, IL"),
       Tract("06", "073", "401101", "San Diego Suburbs, CA"),
       Tract("28", "151", "960100", "Mississippi Delta (Rural)"),
       Tract("21", "095", "950100", "Appalachia, KY (Rural)"),
       Tract("48", "201", "110305", "Houston, TX"),
       Tract("04", "013", "040902", "Phoenix, AZ"),
       Tract("13", "121", "000604", "Atlanta, GA") >>

\* sample_tracts[:target]
get_census_tracts(cfg) ==
    SubSeq(sample_tracts, 1,
           IF cfg.target_census_tracts < Len(sample_tracts)
           THEN cfg.target_census_tracts ELSE Len(sample_tracts))

\* the identifying fields both collectors put into a record
Identifiers(tract_info) ==
    [f \in {"tract_id", "location", "state_fips", "county_fips", "tract_fips"} |->
        CASE f = "tract_id" -> Str(tract_info.state \o tract_info.county \o tract_info.tract)
          [] f = "location" -> Str(tract_info.name)
          [] f = "state_fips" -> Str(tract_info.state)
          [] f = "county_fips" -> Str(tract_info.county)
          [] OTHER -> Str(tract_info.tract)]

----------------------------------------------------------------------------
(* assess_quality *)

\* completeness: 20 for each entry of required_fields absent or None
RECURSIVE MissingPenalty(_, _)
MissingPenalty(data, required_fields) ==
    IF required_fields = <<>> THEN 0
    ELSE (IF Head(required_fields) \notin DOMAIN data \/ data[Head(required_fields)].t = "none"
          THEN 20 ELSE 0)
         + MissingPenalty(data, Tail(required_fields))

\* mutant: the bounds themselves are out of range
RangePenaltyExclusive(data, field, range) ==
    IF field \in DOMAIN data /\ data[field].t # "none"
    THEN IF Floatable(data[field])
         THEN IF range[1] < data[field].n /\ data[field].n < range[2] THEN 0 ELSE 15
         ELSE 10
    ELSE 0

\* mutant: a None value is not skipped, and fails the coercion
RangePenaltyOfNone(data, field, range) ==
    IF field \in DOMAIN data
    THEN IF Floatable(data[field])
         THEN IF range[1] <= data[field].n /\ data[field].n <= range[2] THEN 0 ELSE 15
         ELSE 10
    ELSE 0

\* validity of one field of valid_ranges: 15 out of range, 10 not a number
RangePenalty(data, field, range) ==
    IF field \in DOMAIN data /\ data[field].t # "none"
    THEN IF Floatable(data[field])
         THEN IF range[1] <= data[field].n /\ data[field].n <= range[2] THEN 0 ELSE 15
         ELSE 10
    ELSE 0

RECURSIVE ValidityPenalty(_, _, _)
ValidityPenalty(data, valid_ranges, fields) ==
    IF fields = {} THEN 0
    ELSE LET f == CHOOSE x \in fields : TRUE
         IN RangePenalty(data, f, valid_ranges[f])
            + ValidityPenalty(data, valid_ranges, fields \ {f})

\* the consistency check reaches its comparison of poverty_rate with 0 and 100
ConsistencyCompared(data) ==
    /\ "total_population" \in DOMAIN data
    /\ "poverty_rate" \in DOMAIN data
    /\ Truthy(data["total_population"])
    /\ Truthy(data["poverty_rate"])

\* the comparison of a string with a number raises TypeError
AssessRaises(data) == ConsistencyCompared(data) /\ data["poverty_rate"].t # "num"

ConsistencyPenalty(data) ==
    IF ConsistencyCompared(data)
       /\ (data["poverty_rate"].n > H(100) \/ data["poverty_rate"].n < 0)
    THEN 20 ELSE 0

\* the points left of 100, before the floor
QualityPoints(data, cfg) ==
    100 - MissingPenalty(data, cfg.required_fields)
        - ValidityPenalty(data, cfg.valid_ranges, DOMAIN cfg.valid_ranges)
        - ConsistencyPenalty(data)

\* mutant: no floor at 0
Floor0Missing(points) == points

\* max(0, quality_score) / 100.0, in hundredths
Floor0(points) == IF points < 0 THEN 0 ELSE points

assess_quality(data, cfg) == Floor0(QualityPoints(data, cfg))

----------------------------------------------------------------------------
(* generate_mock_census_data and generate_mock_store_data *)

\* the randint / uniform bounds of the synthetic record, in units
MockRange ==
    [median_income |-> <<25000, 85000>>,
     poverty_rate |-> <<5, 35>>,
     total_population |-> <<1500, 8000>>,
     white_population |-> <<500, 6000>>,
     black_population |-> <<200, 3000>>,
     vehicle_available |-> <<800, 5000>>,
     no_vehicle |-> <<100, 1500>>,
     snap_benefits |-> <<200, 2000>>]

MockFields == DOMAIN MockRange

\* round(x, 1) of a draw x given in thousandths: the result in hundredths
Round1(x) == ((x + 50) \div 100) * 10

\* One vector of random draws: every randint at its lower bound, at its upper
\* bound, or strictly inside; the uniform draw (thousandths) likewise.
MockDraws ==
    { [f \in MockFields |-> IF f = "poverty_rate" THEN 1000 * MockRange[f][1] ELSE MockRange[f][1]],
      [f \in MockFields |-> IF f = "poverty_rate" THEN 1000 * MockRange[f][2] ELSE MockRange[f][2]],
      [f \in MockFields |-> IF f = "poverty_rate" THEN 34960 ELSE MockRange[f][1] + 123] }

generate_mock_census_data(tract_info, draw) ==
    [f \in DOMAIN Identifiers(tract_info) \cup MockFields \cup {"collected_at", "data_source"} |->
        CASE f \in DOMAIN Identifiers(tract_info) -> Identifiers(tract_info)[f]
          [] f = "poverty_rate" -> Num(Round1(draw[f]))
          [] f \in MockFields -> Num(H(draw[f]))
          [] f = "collected_at" -> Str("now")
          [] OTHER -> Str("mock_data")]

\* the draws of one store list: store_count in 1..5, a type and a distance
\* (hundredths of a mile, already rounded to 2 places) per store
StoreDraws ==
    { << <<"supermarket", 20>> >>,
      << <<"grocery", 500>>, <<"convenience", 137>>, <<"supermarket", 20>>,
         <<"grocery", 20>>, <<"convenience", 500>> >> }

StoreNames == <<"Store 1", "Store 2", "Store 3", "Store 4", "Store 5">>

generate_mock_store_data(draw) ==
    [i \in 1..Len(draw) |->
        [type |-> draw[i][1], distance_miles |-> draw[i][2], name |-> StoreNames[i]]]

\* collect_store_data returns the synthetic list
collect_store_data(draw) == generate_mock_store_data(draw)

----------------------------------------------------------------------------
(* Configuration: the keys of config.json the agent reads *)

PlaceholderKey == "YOUR_CENSUS_API_KEY"

\* mutant: only the empty key counts as missing
KeyMissingOnlyEmpty(api_key) == api_key = ""

\* not api_key or 'YOUR_' in api_key
KeyMissing(api_key) == api_key = "" \/ api_key = PlaceholderKey

ApiKeys == {"", PlaceholderKey, "0a1b2c3d"}

\* min_delay_seconds
DelayChoices == {<<1, 2>>, <<1, 1>>, <<2, 1>>, <<12, 1>>}

\* min_quality_threshold, in hundredths
ThresholdChoices == {40, 60, 70}

census_variables ==
    [median_income |-> "B19013_001E",
     poverty_rate |-> "S1701_C03_001E",
     total_population |-> "B01003_001E"]

\* {v: k for k, v in census_variables.items()}
var_map ==
    [code \in {census_variables[k] : k \in DOMAIN census_variables} |->
        CHOOSE k \in DOMAIN census_variables : census_variables[k] = code]

RequiredAll == <<"tract_id", "median_income", "poverty_rate", "total_population">>

RangesAll ==
    [poverty_rate |-> <<0, H(100)>>,
     median_income |-> <<0, H(500000)>>,
     total_population |-> <<0, H(100000)>>]

Config(key, d, th, target, req, ranges) ==
    [api_key |-> key, min_delay_seconds |-> d, min_quality_threshold |-> th,
     target_census_tracts |-> target, required_fields |-> req, valid_ranges |-> ranges]

RunConfigs ==
    { Config(k, d, th, MaxTracts, RequiredAll, RangesAll) :
        k \in ApiKeys, d \in DelayChoices, th \in ThresholdChoices }

----------------------------------------------------------------------------
(* collect_census_data: the response table and its normalisation *)

ResponseHeaders ==
    <<"NAME", census_variables.median_income, census_variables.poverty_rate,
      census_variables.total_population, "state", "county", "tract">>

\* a header row and one value row; every cell is a JSON string or null
Table(headers, income, poverty, population) ==
    << headers,
       [i \in 1..Len(headers) |->
           CASE headers[i] = census_variables.median_income -> income
             [] headers[i] = census_variables.poverty_rate -> poverty
             [] headers[i] = census_variables.total_population -> population
             [] OTHER -> Str("x")] >>

\* The bodies response.json() returns in the model: a complete row, rows with
\* empty or null cells, out-of-range numbers, a zero, a non-numeric string,
\* and a table that lacks a column.
Responses ==
    { Table(ResponseHeaders, NumStr(H(52000)), NumStr(H(20)), NumStr(H(4000))),
      Table(ResponseHeaders, Str(""), NumStr(H(20)), NumStr(H(4000))),
      Table(ResponseHeaders, None, NumStr(H(20)), Str("")),
      Table(ResponseHeaders, Str(""), None, None),
      Table(ResponseHeaders, NumStr(H(52000)), NumStr(H(150)), NumStr(H(4000))),
      Table(ResponseHeaders, NumStr(H(52000)), NumStr(H(150)), NumStr(0)),
      Table(ResponseHeaders, NumStr(H(52000)), Str("N/A"), NumStr(H(4000))),
      Table(<<"NAME", census_variables.poverty_rate, "state">>, None, NumStr(H(20)), None) }

\* a body with fewer than two rows
ShortResponses == { <<>>, << ResponseHeaders >> }

\* float(value) if value else None; a value float() rejects is kept as it is
ParseCell(value) ==
    IF ~Truthy(value) THEN None
    ELSE IF Floatable(value) THEN Num(value.n)
    ELSE value

\* the record built from headers = data[0], values = data[1]
RECURSIVE MapColumns(_, _, _, _)
MapColumns(census_data, headers, values, i) ==
    IF i > Len(headers) THEN census_data
    ELSE MapColumns(
            IF headers[i] \in DOMAIN var_map
            THEN Put(census_data, var_map[headers[i]], ParseCell(values[i]))
            ELSE census_data,
            headers, values, i + 1)

ParseResponse(tract_info, data) ==
    MapColumns(
        Put(Put(Identifiers(tract_info), "collected_at", Str("now")),
            "data_source", Str("census_acs5_2021")),
        data[1], data[2], 1)

\* time.time() - start_time of a call that returned, in hundredths of a second
ResponseTimes == {42}

----------------------------------------------------------------------------
(* adapt_strategy *)

\* stats['quality_scores'][-5:] if stats['quality_scores'] else [1.0]
RecentQuality(scores) ==
    IF scores = <<>> THEN <<100>>
    ELSE IF Len(scores) <= 5 THEN scores
    ELSE SubSeq(scores, Len(scores) - 4, Len(scores))

\* statistics.mean(recent_quality) < 0.6, resp. > 0.9
AvgBelow(scores, bound) == SumSeq(RecentQuality(scores)) < bound * Len(RecentQuality(scores))

AvgAbove(scores, bound) == SumSeq(RecentQuality(scores)) > bound * Len(RecentQuality(scores))

SlowDown(scores) == AvgBelow(scores, 60)

SpeedUp(d, scores) == ~SlowDown(scores) /\ AvgAbove(scores, 90) /\ RLess(R(1), d)

\* successful_requests / total_requests < 0.7, the rate being 1.0 without requests
LowSuccess(st) ==
    st.total_requests > 0 /\ 10 * st.successful_requests < 7 * st.total_requests

\* mutant: the slow-down is not capped
QualityRuleUncapped(d, scores) ==
    IF SlowDown(scores) THEN RMul(d, 3, 2)
    ELSE IF SpeedUp(d, scores) THEN RMax(RMul(d, 9, 10), R(1))
    ELSE d

QualityRule(d, scores) ==
    IF SlowDown(scores) THEN RMin(RMul(d, 3, 2), R(10))
    ELSE IF SpeedUp(d, scores) THEN RMax(RMul(d, 9, 10), R(1))
    ELSE d

SuccessRule(d, st) == IF LowSuccess(st) THEN RMin(RMul(d, 2, 1), R(15)) ELSE d

\* mutant: the success-rate rule starts from the delay as it was before the quality rule
adapt_strategyFromOriginal(d, st) ==
    IF LowSuccess(st) THEN SuccessRule(d, st) ELSE QualityRule(d, st.quality_scores)

adapt_strategy(d, st) == SuccessRule(QualityRule(d, st.quality_scores), st)

----------------------------------------------------------------------------
(* State after __init__ *)

NoProbe == [dropped |-> "", base |-> 0]

\* collection_summary.txt is not written yet
NoSummary == [written |-> FALSE, total_records |-> 0, failed_count |-> 0,
              failed_lines |-> <<>>, and_more |-> FALSE]

\* mutant: the list of failed tracts starts at the second one
FailedTractLinesFromSecond(failed) ==
    IF failed = <<>> THEN << "  None" >>
    ELSE [i \in 1..(IF Len(failed) - 1 < 5 THEN Len(failed) - 1 ELSE 5) |->
             "  - " \o failed[i + 1].name]

\* the lines under "Failed Tracts": the names of failed_tracts[:5], or None
FailedTractLines(failed) ==
    IF failed = <<>> THEN << "  None" >>
    ELSE [i \in 1..(IF Len(failed) < 5 THEN Len(failed) ELSE 5) |-> "  - " \o failed[i].name]

\* generate_collection_summary: the parts of the text that list the outcome
generate_collection_summary(collected, failed) ==
    [written |-> TRUE,
     total_records |-> Len(collected),
     failed_count |-> Len(failed),
     failed_lines |-> FailedTractLines(failed),
     and_more |-> Len(failed) > 5]

\* how a call of collect_census_data ended: "mock" (no request), "ok", "short"
\* (fewer than two rows), "transport" (requests.get raised) or "http" (the
\* response raised), and whether str(e) contains '429'
Outcome(kind, text429) == [kind |-> kind, rate_limited |-> text429]

InitWith(cfg, data) ==
    /\ config = cfg
    /\ collected_data = <<>>
    /\ failed_tracts = <<>>
    /\ stats = [total_requests |-> 0, successful_requests |-> 0, failed_requests |-> 0,
                quality_scores |-> <<>>, api_response_times |-> <<>>]
    /\ delay = cfg.min_delay_seconds
    /\ idx = 1
    /\ response = Outcome("none", FALSE)
    /\ demo_data = data
    /\ quality_score = 0
    /\ calls = [adapt |-> 0, delay |-> 0, stores |-> 0, cooldown |-> 0, save |-> 0, docs |-> 0,
                errors |-> 0]
    /\ summary = NoSummary
    /\ probe = NoProbe

Init == \E cfg \in RunConfigs : InitWith(cfg, NoData) /\ pc = "fetch"

census_tracts == get_census_tracts(config)

tract_info == census_tracts[idx]

InLoop == idx <= Len(census_tracts)

----------------------------------------------------------------------------
(* collect_census_data, one action per way the call ends *)

\* no credential: the synthetic record, without a request
CollectMock ==
    /\ pc = "fetch" /\ InLoop
    /\ KeyMissing(config.api_key)
    /\ \E draw \in MockDraws : demo_data' = generate_mock_census_data(tract_info, draw)
    /\ response' = Outcome("mock", FALSE)
    /\ pc' = "fetched"
    /\ UNCHANGED <<config, summary, collected_data, failed_tracts, stats, delay, idx,
                   quality_score, calls, probe>>

\* mutant: the exception is not caught
OnRequestExceptionUncaught(st, kind, text429) ==
    /\ response' = Outcome(kind, text429)
    /\ stats' = st
    /\ pc' = "raised"
    /\ UNCHANGED <<delay, calls, demo_data>>

\* mutant: every request error backs off
OnRequestExceptionAlwaysBackoff(st, kind, text429) ==
    /\ response' = Outcome(kind, text429)
    /\ stats' = [st EXCEPT !.failed_requests = @ + 1]
    /\ delay' = RMul(delay, 2, 1)
    /\ calls' = [calls EXCEPT !.cooldown = @ + 1]
    /\ demo_data' = NoData
    /\ pc' = "fetched"

\* the except branch: count the failure, back off on a rate-limit text
OnRequestException(st, kind, text429) ==
    /\ response' = Outcome(kind, text429)
    /\ stats' = [st EXCEPT !.failed_requests = @ + 1]
    /\ delay' = IF text429 THEN RMul(delay, 2, 1) ELSE delay
    /\ calls' = IF text429 THEN [calls EXCEPT !.cooldown = @ + 1] ELSE calls
    /\ demo_data' = NoData
    /\ pc' = "fetched"

\* requests.get raises (timeout, connection error): no response, no latency sample
CollectTransportError ==
    /\ pc = "fetch" /\ InLoop
    /\ ~KeyMissing(config.api_key)
    /\ \E text429 \in BOOLEAN :
          OnRequestException([stats EXCEPT !.total_requests = @ + 1], "transport", text429)
    /\ UNCHANGED <<config, summary, collected_data, failed_tracts, idx, quality_score, probe>>

\* a response arrives and raise_for_status (or the decoding of its body) raises
CollectHttpError ==
    /\ pc = "fetch" /\ InLoop
    /\ ~KeyMissing(config.api_key)
    /\ \E text429 \in BOOLEAN, response_time \in ResponseTimes :
          OnRequestException(
              [stats EXCEPT !.total_requests = @ + 1,
                            !.api_response_times = Append(@, response_time)],
              "http", text429)
    /\ UNCHANGED <<config, summary, collected_data, failed_tracts, idx, quality_score, probe>>

\* len(data) < 2: None is returned and no failure is counted
CollectNoData ==
    /\ pc = "fetch" /\ InLoop
    /\ ~KeyMissing(config.api_key)
    /\ \E data \in ShortResponses, response_time \in ResponseTimes :
          stats' = [stats EXCEPT !.total_requests = @ + 1,
                                 !.api_response_times = Append(@, response_time)]
    /\ response' = Outcome("short", FALSE)
    /\ demo_data' = NoData
    /\ pc' = "fetched"
    /\ UNCHANGED <<config, summary, collected_data, failed_tracts, delay, idx, quality_score,
                   calls, probe>>

\* the table is mapped into a record
CollectOk ==
    /\ pc = "fetch" /\ InLoop
    /\ ~KeyMissing(config.api_key)
    /\ \E data \in Responses, response_time \in ResponseTimes :
          /\ stats' = [stats EXCEPT !.total_requests = @ + 1,
                                    !.api_response_times = Append(@, response_time)]
          /\ demo_data' = ParseResponse(tract_info, data)
    /\ response' = Outcome("ok", FALSE)
    /\ pc' = "fetched"
    /\ UNCHANGED <<config, summary, collected_data, failed_tracts, delay, idx, quality_score,
                   calls, probe>>

----------------------------------------------------------------------------
(* run_collection: the body of the loop over census_tracts *)

\* quality_score = assess_quality(demo_data); demo_data['quality_score'] = quality_score
AssessQuality ==
    /\ pc = "fetched"
    /\ DOMAIN demo_data # {}
    /\ ~AssessRaises(demo_data)
    /\ quality_score' = assess_quality(demo_data, config)
    /\ stats' = [stats EXCEPT !.quality_scores = Append(@, quality_score')]
    /\ demo_data' = Put(demo_data, "quality_score", Num(quality_score'))
    /\ pc' = "scored"
    /\ UNCHANGED <<config, summary, response, collected_data, failed_tracts, delay, idx, calls, probe>>

\* mutant: the exception is swallowed, the tract recorded as failed and the loop goes on
AssessQualityRaisesSwallowed ==
    /\ pc = "fetched"
    /\ DOMAIN demo_data # {}
    /\ AssessRaises(demo_data)
    /\ failed_tracts' = Append(failed_tracts, tract_info)
    /\ pc' = "adapt"
    /\ UNCHANGED <<config, summary, response, collected_data, stats, delay, idx, demo_data,
                   quality_score, calls, probe>>

\* the consistency check compares a string with a number: the TypeError leaves
\* the loop, is logged by run_collection and re-raised
AssessQualityRaises ==
    /\ pc = "fetched"
    /\ DOMAIN demo_data # {}
    /\ AssessRaises(demo_data)
    /\ calls' = [calls EXCEPT !.errors = @ + 1]
    /\ pc' = "raised"
    /\ UNCHANGED <<config, summary, response, collected_data, failed_tracts, stats, delay,
                   idx, demo_data, quality_score, probe>>

\* mutant: the threshold itself does not pass
PassesThresholdStrict(score, cfg) == score > cfg.min_quality_threshold

\* quality_score >= min_quality_threshold
PassesThreshold(score, cfg) == score >= cfg.min_quality_threshold

\* the stores are collected and the record is kept
KeepRecord ==
    /\ pc = "scored"
    /\ PassesThreshold(quality_score, config)
    /\ \E draw \in StoreDraws :
          /\ demo_data' = Put(demo_data, "nearby_stores", collect_store_data(draw))
          /\ collected_data' = Append(collected_data, demo_data')
    /\ stats' = [stats EXCEPT !.successful_requests = @ + 1]
    /\ calls' = [calls EXCEPT !.stores = @ + 1]
    /\ pc' = "adapt"
    /\ UNCHANGED <<config, summary, response, failed_tracts, delay, idx, quality_score, probe>>

\* mutant: a record turned away leaves no trace of its tract
SkipLowQualityUnrecorded ==
    /\ pc = "scored"
    /\ ~PassesThreshold(quality_score, config)
    /\ pc' = "adapt"
    /\ UNCHANGED <<config, summary, response, collected_data, failed_tracts, stats, delay,
                   idx, demo_data, quality_score, calls, probe>>

\* quality too low: the tract is recorded as failed
SkipLowQuality ==
    /\ pc = "scored"
    /\ ~PassesThreshold(quality_score, config)
    /\ failed_tracts' = Append(failed_tracts, tract_info)
    /\ pc' = "adapt"
    /\ UNCHANGED <<config, summary, response, collected_data, stats, delay, idx, demo_data, quality_score,
                   calls, probe>>

\* mutant: a failed fetch goes straight to the next tract
RecordFailureContinue ==
    /\ pc = "fetched"
    /\ DOMAIN demo_data = {}
    /\ failed_tracts' = Append(failed_tracts, tract_info)
    /\ idx' = idx + 1
    /\ pc' = "fetch"
    /\ UNCHANGED <<config, summary, response, collected_data, stats, delay, demo_data, quality_score,
                   calls, probe>>

\* no record came back: the tract is recorded as failed
RecordFailure ==
    /\ pc = "fetched"
    /\ DOMAIN demo_data = {}
    /\ failed_tracts' = Append(failed_tracts, tract_info)
    /\ pc' = "adapt"
    /\ UNCHANGED <<config, summary, response, collected_data, stats, delay, idx, demo_data, quality_score,
                   calls, probe>>

AdaptStrategy ==
    /\ pc = "adapt"
    /\ delay' = adapt_strategy(delay, stats)
    /\ calls' = [calls EXCEPT !.adapt = @ + 1]
    /\ pc' = "delay"
    /\ UNCHANGED <<config, summary, response, collected_data, failed_tracts, stats, idx, demo_data,
                   quality_score, probe>>

\* time.sleep(delay * jitter); the loop moves to the next tract
RespectfulDelay ==
    /\ pc = "delay"
    /\ calls' = [calls EXCEPT !.delay = @ + 1]
    /\ idx' = idx + 1
    /\ pc' = "fetch"
    /\ UNCHANGED <<config, summary, response, collected_data, failed_tracts, stats, delay, demo_data,
                   quality_score, probe>>

\* after the loop: save_data and generate_documentation
Finish ==
    /\ pc = "fetch" /\ ~InLoop
    /\ calls' = [calls EXCEPT !.save = @ + 1, !.docs = @ + 1]
    /\ summary' = generate_collection_summary(collected_data, failed_tracts)
    /\ pc' = "done"
    /\ UNCHANGED <<config, response, collected_data, failed_tracts, stats, delay, idx, demo_data,
                   quality_score, probe>>

Next ==
    \/ CollectMock
    \/ CollectTransportError
    \/ CollectHttpError
    \/ CollectNoData
    \/ CollectOk
    \/ AssessQuality
    \/ AssessQualityRaises
    \/ KeepRecord
    \/ SkipLowQuality
    \/ RecordFailure
    \/ AdaptStrategy
    \/ RespectfulDelay
    \/ Finish

Spec == Init /\ [][Next]_vars

----------------------------------------------------------------------------
(* assess_quality on its own: records and quality_checks configurations    *)
(* drawn from wider sets than one run meets, scored once, then scored      *)
(* again with one required field taken away.                               *)

Absent == [t |-> "absent", n |-> 0, s |-> ""]

RequiredWide ==
    <<"tract_id", "median_income", "poverty_rate", "total_population",
      "snap_benefits", "no_vehicle", "vehicle_available">>

RequiredChoices == { <<>>, <<"poverty_rate">>, RequiredAll, RequiredWide }

RangesChoices ==
    { [f \in {} |-> <<0, 0>>],
      [poverty_rate |-> <<0, H(100)>>],
      RangesAll,
      [poverty_rate |-> <<H(5), H(35)>>, total_population |-> <<H(1500), H(8000)>>] }

QualityConfigs ==
    { Config("0a1b2c3d", <<1, 1>>, 70, 1, req, ranges) :
        req \in RequiredChoices, ranges \in RangesChoices }

IncomeValues == { Absent, None, Num(H(52000)), Num(-H(1)), Str("N/A") }

PovertyValues ==
    { Absent, None, Num(H(20)), Num(H(150)), Num(-H(5)), Num(0), Str("N/A"), NumStr(H(50)) }

PopulationValues == { Absent, None, Num(H(4000)), Num(0), NumStr(H(4000)) }

\* the households fields of a synthetic record, all present or all absent
HouseholdFields == {"snap_benefits", "no_vehicle", "vehicle_available"}

PutIfPresent(data, field, v) == IF v = Absent THEN data ELSE Put(data, field, v)

QualityRecords ==
    { PutIfPresent(PutIfPresent(PutIfPresent(
          [f \in (IF tid THEN {"tract_id", "location"} ELSE {"location"})
                 \cup (IF hh THEN HouseholdFields ELSE {}) |->
              IF f \in HouseholdFields THEN Num(H(900)) ELSE Str("x")],
          "median_income", inc), "poverty_rate", pov), "total_population", pop) :
        tid \in BOOLEAN, hh \in BOOLEAN,
        inc \in IncomeValues, pov \in PovertyValues, pop \in PopulationValues }

InitQuality ==
    \E cfg \in QualityConfigs, data \in QualityRecords :
        /\ InitWith(cfg, data)
        /\ pc = "fetched"

\* one entry of required_fields, present and not None in the scored record, is
\* deleted from it or set to None, and the record goes back to the assessor
DropRequiredField ==
    /\ pc = "scored"
    /\ probe = NoProbe
    /\ \E i \in 1..Len(config.required_fields), deleted \in BOOLEAN :
          LET field == config.required_fields[i] IN
          /\ field \in DOMAIN demo_data
          /\ demo_data[field].t # "none"
          /\ demo_data' = IF deleted THEN Without(demo_data, field)
                          ELSE Put(demo_data, field, None)
          /\ probe' = [dropped |-> field, base |-> quality_score]
    /\ pc' = "fetched"
    /\ UNCHANGED <<config, summary, response, collected_data, failed_tracts, stats, delay, idx,
                   quality_score, calls>>

NextQuality ==
    \/ AssessQuality
    \/ AssessQualityRaises
    \/ DropRequiredField

SpecQuality == InitQuality /\ [][NextQuality]_vars

----------------------------------------------------------------------------
(* adapt_strategy on its own: a delay and statistics as a longer run leaves  *)
(* them (up to MaxScores scores, so that the window of 5 cuts), handed to    *)
(* one call.                                                                 *)

RECURSIVE ScoreHistories(_)
ScoreHistories(n) ==
    IF n = 0 THEN { <<>> }
    ELSE ScoreHistories(n - 1)
         \cup { Append(h, q) : h \in { g \in ScoreHistories(n - 1) : Len(g) = n - 1 },
                               q \in {40, 100} }

\* the scores of the kept records, the threshold being 0.7
RECURSIVE KeptCount(_)
KeptCount(scores) ==
    IF scores = <<>> THEN 0
    ELSE (IF Head(scores) >= 70 THEN 1 ELSE 0) + KeptCount(Tail(scores))

AdaptDelays == DelayChoices \cup {<<8, 1>>, <<15, 1>>, <<30, 1>>}

InitAdapt ==
    \E d \in AdaptDelays, scores \in ScoreHistories(MaxScores), failures \in {0, 1, 3},
       mock \in BOOLEAN :
        /\ config = Config(IF mock THEN "" ELSE "0a1b2c3d", d, 70, MaxTracts,
                           RequiredAll, RangesAll)
        /\ collected_data = <<>>
        /\ failed_tracts = <<>>
        /\ stats = [total_requests |-> IF mock THEN 0 ELSE Len(scores) + failures,
                    successful_requests |-> KeptCount(scores),
                    failed_requests |-> IF mock THEN 0 ELSE failures,
                    quality_scores |-> scores,
                    api_response_times |-> <<>>]
        /\ delay = d
        /\ idx = 1
        /\ response = Outcome("none", FALSE)
        /\ demo_data = NoData
        /\ quality_score = 0
        /\ calls = [adapt |-> 0, delay |-> 0, stores |-> 0, cooldown |-> 0, save |-> 0,
                    docs |-> 0, errors |-> 0]
        /\ summary = NoSummary
        /\ probe = NoProbe
        /\ pc = "adapt"

SpecAdapt == InitAdapt /\ [][AdaptStrategy]_vars

----------------------------------------------------------------------------
(* Claims *)

Last(seq) == seq[Len(seq)]

TractIdOf(tract) == Str(tract.state \o tract.county \o tract.tract)

\* the record of the tract is among the kept records
Kept(tract) ==
    \E i \in 1..Len(collected_data) : collected_data[i]["tract_id"] = TractIdOf(tract)

\* the tract is among the failed tracts
Failed(tract) == \E i \in 1..Len(failed_tracts) : failed_tracts[i] = tract

\* the fetch of the current tract returned a record that scored at least the threshold
CurrentQualifies ==
    /\ DOMAIN demo_data # {}
    /\ demo_data["quality_score"].n >= config.min_quality_threshold

\* C1: every kept record scored at least min_quality_threshold, and once the
\* branch of a loop iteration is taken, the record of the tract is the last of
\* collected_data if it scored at least the threshold (and the tract is not in
\* failed_tracts); otherwise (lower score, or no record) the tract_info is the
\* last of failed_tracts and no record of the tract is in collected_data.
C1_KeptIffQualifies ==
    /\ \A i \in 1..Len(collected_data) :
          collected_data[i]["quality_score"].n >= config.min_quality_threshold
    /\ pc \in {"adapt", "delay"} =>
          IF CurrentQualifies
          THEN /\ Len(collected_data) > 0
               /\ Last(collected_data)["tract_id"] = TractIdOf(tract_info)
               /\ Last(collected_data)["quality_score"] = demo_data["quality_score"]
               /\ ~Failed(tract_info)
          ELSE /\ Len(failed_tracts) > 0
               /\ Last(failed_tracts) = tract_info
               /\ ~Kept(tract_info)

\* a record scored below the threshold was turned away after another was kept
C1_Witness ==
    /\ pc = "adapt"
    /\ DOMAIN demo_data # {}
    /\ demo_data["quality_score"].n < config.min_quality_threshold
    /\ Last(failed_tracts) = tract_info
    /\ Len(collected_data) > 0

\* the record as it was handed to assess_quality
Assessed == Without(demo_data, "quality_score")

\* C2: the score assess_quality returns, and every score appended to
\* stats['quality_scores'], lies in [0.0, 1.0] (0..100 hundredths).
C2_ScoreInUnitInterval ==
    /\ pc = "scored" => quality_score >= 0 /\ quality_score <= 100
    /\ \A i \in 1..Len(stats.quality_scores) :
          stats.quality_scores[i] >= 0 /\ stats.quality_scores[i] <= 100

\* a record whose penalties exceed 100 points was scored 0.0
C2_Witness ==
    /\ pc = "scored"
    /\ QualityPoints(Assessed, config) < 0
    /\ quality_score = 0
    /\ Last(stats.quality_scores) = 0

\* every required field present and not None, every field of valid_ranges
\* holding a number within its bounds, and the poverty rate within [0, 100]
PerfectRecord(data, cfg) ==
    /\ \A i \in 1..Len(cfg.required_fields) :
          /\ cfg.required_fields[i] \in DOMAIN data
          /\ data[cfg.required_fields[i]] # None
    /\ \A f \in DOMAIN cfg.valid_ranges :
          /\ f \in DOMAIN data
          /\ data[f].t \in {"num", "numstr"}
          /\ data[f].n >= cfg.valid_ranges[f][1]
          /\ data[f].n <= cfg.valid_ranges[f][2]
    /\ "poverty_rate" \in DOMAIN data =>
          /\ data["poverty_rate"].t = "num"
          /\ data["poverty_rate"].n >= 0
          /\ data["poverty_rate"].n <= H(100)

\* C3: a record with every required field present and non-null, every field of
\* valid_ranges inside its bounds and a poverty rate within [0, 100] scores
\* exactly 1.0.
C3_PerfectScoresOne ==
    (pc = "scored" /\ PerfectRecord(Assessed, config)) => quality_score = 100

\* a record with required fields and ranged fields, one of them on its bound
C3_Witness ==
    /\ pc = "scored"
    /\ probe = NoProbe
    /\ PerfectRecord(Assessed, config)
    /\ config.required_fields = RequiredWide
    /\ config.valid_ranges = RangesAll
    /\ Assessed["poverty_rate"] = Num(0)
    /\ quality_score = 100

\* C4: a record that scored 1.0, with one field of required_fields deleted or
\* set to None, scores exactly 0.80, also when the field is listed in
\* valid_ranges or is total_population or poverty_rate.
C4_DropOneRequiredField ==
    (pc = "scored" /\ probe.dropped # "" /\ probe.base = 100) => quality_score = 80

\* the poverty rate, required and ranged, was set to None in a record that scored 1.0
C4_Witness ==
    /\ pc = "scored"
    /\ probe.dropped = "poverty_rate"
    /\ probe.base = 100
    /\ "poverty_rate" \in DOMAIN config.valid_ranges
    /\ "poverty_rate" \in DOMAIN demo_data
    /\ demo_data["poverty_rate"] = None
    /\ "total_population" \in DOMAIN demo_data
    /\ Truthy(demo_data["total_population"])
    /\ quality_score = 80

\* the step that runs adapt_strategy
AdaptStep == pc = "adapt" /\ pc' = "delay"

\* C5 as claimed: after adapt_strategy the delay is at most 15 when the
\* success-rate rule ran, at most 10 when only the quality rule changed it, and
\* at least 1 when the quality rule changed it.
C5_ClampedWheneverChanged ==
    [][AdaptStep =>
        /\ LowSuccess(stats) => RLeq(delay', R(15))
        /\ (QualityRule(delay, stats.quality_scores) # delay /\ ~LowSuccess(stats))
              => RLeq(delay', R(10))
        /\ QualityRule(delay, stats.quality_scores) # delay => RLeq(R(1), delay')]_vars

\* C5: after adapt_strategy the delay is at most 15 when the success-rate rule
\* ran, at most 10 when the slow-down branch ran and the success-rate rule did
\* not, and at least 1 when the speed-up branch ran.
C5_ClampedPerBranch ==
    [][AdaptStep =>
        /\ LowSuccess(stats) => RLeq(delay', R(15))
        /\ (SlowDown(stats.quality_scores) /\ ~LowSuccess(stats)) => RLeq(delay', R(10))
        /\ SpeedUp(delay, stats.quality_scores) => RLeq(R(1), delay')]_vars

\* adapt_strategy has just capped a slow-down at 10 (the statistics it read are
\* unchanged by it), in a run whose delay was configured above 10
C5_Witness ==
    /\ pc = "delay"
    /\ SlowDown(stats.quality_scores)
    /\ ~LowSuccess(stats)
    /\ RLess(R(10), config.min_delay_seconds)
    /\ delay = R(10)

\* the position of the loop after each step, and what each callee may follow
StepOrder ==
    /\ pc = "fetch" => pc' \in {"fetched", "done"}
    /\ pc = "fetched" =>
          \/ pc' = "scored" /\ DOMAIN demo_data # {}
          \/ pc' = "raised" /\ DOMAIN demo_data # {}
          \/ pc' = "adapt" /\ DOMAIN demo_data = {}
    /\ pc = "scored" =>
          /\ pc' = "adapt"
          /\ calls'.stores # calls.stores <=> quality_score >= config.min_quality_threshold
    /\ pc # "scored" => calls'.stores = calls.stores
    /\ pc = "adapt" => pc' = "delay" /\ calls'.adapt = calls.adapt + 1
    /\ pc # "adapt" => calls'.adapt = calls.adapt
    /\ pc = "delay" => pc' = "fetch" /\ idx' = idx + 1 /\ calls'.delay = calls.delay + 1
    /\ pc # "delay" => idx' = idx /\ calls'.delay = calls.delay

\* adapt_strategy and respectful_delay have run once for every tract before the current one
OncePerTract ==
    /\ calls.delay = idx - 1
    /\ calls.adapt = IF pc = "delay" THEN idx ELSE idx - 1

\* C6: for every tract the steps run in the order fetch, score (if a record came
\* back), store fetch (only if the score reaches the threshold), adapt_strategy,
\* respectful_delay; adapt_strategy and respectful_delay run exactly once per
\* tract before the next tract starts, whether the record was kept, turned away
\* or never fetched.
C6_StepsInOrderOncePerTract == []OncePerTract /\ [][StepOrder]_vars

\* the third tract was fetched after one failed fetch and one record turned
\* away for its score, each followed by one adapt_strategy and one respectful_delay
C6_Witness ==
    /\ pc = "fetched"
    /\ idx = 3
    /\ Len(failed_tracts) = 2
    /\ response.kind = "ok"
    /\ Len(stats.quality_scores) = 1
    /\ stats.failed_requests = 1
    /\ calls.adapt = 2
    /\ calls.delay = 2

RequestFailed(r) == r.kind \in {"transport", "http"}

\* C7: a request that fails with a transport or HTTP error does not raise:
\* failed_requests grows by exactly one and no record is returned; then the
\* tract is appended to failed_tracts, nothing is appended to collected_data or
\* quality_scores, and the loop goes on to adapt_strategy.
C7_RequestErrorIsRecovered ==
    [][/\ (pc = "fetch" /\ InLoop /\ RequestFailed(response')) =>
             /\ stats'.failed_requests = stats.failed_requests + 1
             /\ demo_data' = NoData
             /\ pc' = "fetched"
             /\ UNCHANGED <<collected_data, failed_tracts>>
             /\ stats'.quality_scores = stats.quality_scores
       /\ (pc = "fetched" /\ RequestFailed(response)) =>
             /\ failed_tracts' = Append(failed_tracts, tract_info)
             /\ pc' = "adapt"
             /\ UNCHANGED <<collected_data, stats>>]_vars

\* after a failed request the tract is in failed_tracts and the next tract is being fetched
C7_Witness ==
    /\ pc = "fetched"
    /\ idx = 2
    /\ failed_tracts = << census_tracts[1] >>
    /\ stats.failed_requests = 1
    /\ collected_data = <<>>
    /\ stats.quality_scores = <<>>

\* C8: a request error whose text contains '429' doubles the delay and takes the
\* cooldown, besides counting the failure; any other request error leaves the
\* delay as it is, and so does the recording of the failed tract, until
\* adapt_strategy runs.
C8_BackoffOnlyOnRateLimit ==
    [][/\ (pc = "fetch" /\ InLoop /\ RequestFailed(response')) =>
             /\ stats'.failed_requests = stats.failed_requests + 1
             /\ IF response'.rate_limited
                THEN delay' = RMul(delay, 2, 1) /\ calls'.cooldown = calls.cooldown + 1
                ELSE delay' = delay /\ calls'.cooldown = calls.cooldown
       /\ (pc = "fetched" /\ RequestFailed(response)) =>
             /\ delay' = delay
             /\ calls'.cooldown = calls.cooldown
             /\ failed_tracts' = Append(failed_tracts, tract_info)]_vars

\* a rate-limited request doubled the configured delay, and the tract was recorded as failed
C8_Witness ==
    /\ pc = "adapt"
    /\ idx = 1
    /\ response = Outcome("http", TRUE)
    /\ delay = RMul(config.min_delay_seconds, 2, 1)
    /\ calls.cooldown = 1
    /\ stats.failed_requests = 1
    /\ failed_tracts = << census_tracts[1] >>

\* C9: api_response_times holds one latency sample per attempted request.
C9_OneSamplePerRequest == Len(stats.api_response_times) = stats.total_requests

\* C10: without a valid credential (api_key empty or holding 'YOUR_') no request
\* is issued and no failure is returned: every fetch returns a synthetic record
\* with the identifiers of the tract and every generated number inside its range.
C10_MockWithoutCredential ==
    config.api_key \in {"", "YOUR_CENSUS_API_KEY"} =>
        /\ stats.total_requests = 0
        /\ stats.failed_requests = 0
        /\ stats.api_response_times = <<>>
        /\ pc = "fetched" =>
              /\ response.kind = "mock"
              /\ DOMAIN demo_data # {}
              /\ demo_data["tract_id"] = TractIdOf(tract_info)
              /\ demo_data["location"] = Str(tract_info.name)
              /\ demo_data["state_fips"] = Str(tract_info.state)
              /\ demo_data["county_fips"] = Str(tract_info.county)
              /\ demo_data["tract_fips"] = Str(tract_info.tract)
              /\ demo_data["data_source"] = Str("mock_data")
              /\ demo_data["poverty_rate"].n \in H(5)..H(35)
              /\ demo_data["total_population"].n \in H(1500)..H(8000)
              /\ demo_data["median_income"].n \in H(25000)..H(85000)
              /\ demo_data["white_population"].n \in H(500)..H(6000)
              /\ demo_data["black_population"].n \in H(200)..H(3000)
              /\ demo_data["vehicle_available"].n \in H(800)..H(5000)
              /\ demo_data["no_vehicle"].n \in H(100)..H(1500)
              /\ demo_data["snap_benefits"].n \in H(200)..H(2000)
              /\ \A f \in MockFields : demo_data[f].t = "num"

\* with the placeholder key, the third tract got a synthetic record whose
\* poverty rate was rounded up to the top of its range
C10_Witness ==
    /\ config.api_key = "YOUR_CENSUS_API_KEY"
    /\ pc = "fetched"
    /\ idx = 3
    /\ response.kind = "mock"
    /\ demo_data["tract_id"] = Str("36061008600")
    /\ demo_data["poverty_rate"] = Num(H(35))
    /\ demo_data["median_income"] = Num(H(25123))
    /\ Len(collected_data) = 2

\* the consistency deduction as C12 states it: both fields present and not
\* None, whatever their values, and the rate outside [0, 100]
StatedConsistencyPenalty(data) ==
    IF /\ "total_population" \in DOMAIN data
       /\ "poverty_rate" \in DOMAIN data
       /\ data["total_population"].t # "none"
       /\ data["poverty_rate"].t # "none"
       /\ (data["poverty_rate"].n > H(100) \/ data["poverty_rate"].n < 0)
    THEN 20 ELSE 0

\* C12: the consistency check of assess_quality takes 20 points exactly when
\* total_population and poverty_rate are both present and non-null and the rate
\* is outside [0, 100], for every non-null value of the two, a population of 0
\* included: the score is the floor of 100 less the completeness and validity
\* deductions and that one.
C12_ConsistencyOnEveryNonNull ==
    pc = "scored" =>
        LET points == 100 - MissingPenalty(Assessed, config.required_fields)
                          - ValidityPenalty(Assessed, config.valid_ranges,
                                            DOMAIN config.valid_ranges)
                          - StatedConsistencyPenalty(Assessed)
        IN quality_score = IF points < 0 THEN 0 ELSE points

\* the run of C13 has ended: three tracts, a threshold of 0.7, scores 1.0, 1.0
\* and 0.6, the last record lacking two required fields
ScenarioThreeTracts ==
    /\ pc = "done"
    /\ Len(census_tracts) = 3
    /\ config.min_quality_threshold = 70
    /\ stats.quality_scores = <<100, 100, 60>>
    /\ DOMAIN demo_data # {}
    /\ demo_data["tract_id"] = TractIdOf(census_tracts[3])
    /\ MissingPenalty(demo_data, config.required_fields) = 40

\* C13: a run over 3 tracts with threshold 0.7 whose first two records score
\* 1.0 and whose third lacks 2 required fields (score 0.6) ends with 2 records
\* in collected_data, the third tract alone in failed_tracts, and the name of
\* the third tract listed under "Failed Tracts" in the text summary.
C13_TwoKeptOneFailed ==
    ScenarioThreeTracts =>
        /\ Len(collected_data) = 2
        /\ failed_tracts = << census_tracts[3] >>
        /\ summary.written
        /\ summary.total_records = 2
        /\ summary.failed_count = 1
        /\ summary.failed_lines = << "  - Manhattan, NY (Urban)" >>
        /\ ~summary.and_more

\* that run, ended, with its summary written
C13_Witness ==
    /\ ScenarioThreeTracts
    /\ Len(collected_data) = 2
    /\ collected_data[1]["tract_id"] = TractIdOf(census_tracts[1])
    /\ collected_data[2]["tract_id"] = TractIdOf(census_tracts[2])
    /\ summary.failed_lines = << "  - Manhattan, NY (Urban)" >>

\* C14: an exception that leaves the loop body (the TypeError of the
\* consistency check) is logged once and re-raised and ends the run: no step
\* follows, the tract is neither retried nor recorded, adapt_strategy and
\* respectful_delay do not run for it, and save_data and
\* generate_documentation are not executed; no record that raises is ever
\* carried past the assessment.
C14_UncaughtExceptionEndsRun ==
    /\ pc = "raised" =>
          /\ ~ENABLED Next
          /\ calls.errors = 1
          /\ calls.save = 0
          /\ calls.docs = 0
          /\ ~summary.written
          /\ InLoop
          /\ ~Kept(tract_info)
          /\ ~Failed(tract_info)
          /\ calls.adapt = idx - 1
          /\ calls.delay = idx - 1
    /\ calls.errors > 0 => pc = "raised"
    /\ (pc \in {"scored", "adapt", "delay"} /\ DOMAIN demo_data # {}) =>
          ~(/\ "total_population" \in DOMAIN demo_data
            /\ "poverty_rate" \in DOMAIN demo_data
            /\ Truthy(demo_data["total_population"])
            /\ demo_data["poverty_rate"].t = "str"
            /\ demo_data["poverty_rate"].s # "")

\* the second tract's record raised after the first was kept
C14_Witness ==
    /\ pc = "raised"
    /\ idx = 2
    /\ Len(collected_data) = 1
    /\ demo_data["poverty_rate"] = Str("N/A")
    /\ calls.errors = 1
    /\ calls.save = 0

\* the delay C15 states for a call with delay d, scores and request counts
StatedDelay(d, scores, successes, total) ==
    LET n == Len(scores)
        window == IF n = 0 THEN <<100>>
                  ELSE IF n > 5 THEN [i \in 1..5 |-> scores[n - 5 + i]] ELSE scores
        sum == SumSeq(window)
        k == Len(window)
        d1 == IF sum < 60 * k THEN RMin(<<3 * d[1], 2 * d[2]>>, <<10, 1>>)
              ELSE IF sum > 90 * k /\ d[1] > d[2] THEN RMax(<<9 * d[1], 10 * d[2]>>, <<1, 1>>)
              ELSE d
        low == total > 0 /\ 10 * successes < 7 * total
    IN IF low THEN RMin(<<2 * d1[1], d1[2]>>, <<15, 1>>) ELSE d1

\* equality of two rationals
REq(a, b) == a[1] * b[2] = b[1] * a[2]

\* C15: adapt_strategy turns the delay d into min(1.5 d, 10) if the mean q of
\* the last 5 scores (1.0 without scores) is below 0.6, else into max(0.9 d, 1)
\* if q > 0.9 and d > 1, else leaves it; then, if the success rate is below 0.7,
\* doubles that already adjusted delay, capped at 15.
C15_DelayFormula ==
    [][AdaptStep =>
        REq(delay', StatedDelay(delay, stats.quality_scores,
                                stats.successful_requests, stats.total_requests))]_vars

\* six scores of which only the last five count (mean 1.0, over all six 0.9):
\* the speed-up took 2 to 1.8 and the success-rate rule doubled that to 3.6
C15_Witness ==
    /\ pc = "delay"
    /\ stats.quality_scores = <<40, 100, 100, 100, 100, 100>>
    /\ stats.successful_requests = 5
    /\ stats.total_requests = 9
    /\ config.min_delay_seconds = <<2, 1>>
    /\ delay = <<18, 5>>

\* C16: the success rate is a proportion: in every state of a run, with a
\* credential or on the synthetic fallback, successful_requests is at most
\* total_requests, and so is successful_requests + failed_requests.
C16_SuccessesWithinRequests ==
    /\ stats.successful_requests <= stats.total_requests
    /\ stats.successful_requests + stats.failed_requests <= stats.total_requests

\* the index of a tract in the sample list, by its tract_id
TractIndex(id) == CHOOSE i \in 1..Len(sample_tracts) : TractIdOf(sample_tracts[i]) = id

\* the tracts whose iteration has taken its branch
Processed == IF pc \in {"adapt", "delay"} THEN idx ELSE idx - 1

\* C17: once k iterations have taken their branch without an exception,
\* collected_data and failed_tracts hold k entries together, no tract is in
\* both, each sequence follows the order of processing, every processed tract
\* is in one of them, and collected_data is as long as successful_requests counts.
C17_EveryTractInOneSequence ==
    /\ Len(collected_data) + Len(failed_tracts) = Processed
    /\ Len(collected_data) = stats.successful_requests
    /\ \A i \in 1..Len(collected_data), j \in 1..Len(failed_tracts) :
          collected_data[i]["tract_id"] # TractIdOf(failed_tracts[j])
    /\ \A i, j \in 1..Len(collected_data) :
          i < j => TractIndex(collected_data[i]["tract_id"])
                      < TractIndex(collected_data[j]["tract_id"])
    /\ \A i, j \in 1..Len(failed_tracts) :
          i < j => TractIndex(TractIdOf(failed_tracts[i]))
                      < TractIndex(TractIdOf(failed_tracts[j]))
    /\ \A k \in 1..Processed : Kept(census_tracts[k]) \/ Failed(census_tracts[k])

\* a run ended with the second of three tracts failed and the others kept
C17_Witness ==
    /\ pc = "done"
    /\ Len(collected_data) = 2
    /\ failed_tracts = << census_tracts[2] >>
    /\ collected_data[2]["tract_id"] = TractIdOf(census_tracts[3])
    /\ stats.successful_requests = 2

\* C18: a call of adapt_strategy with a mean recent quality below 0.6 never
\* leaves the delay lower than it found it.
C18_SlowDownNeverLowers ==
    [][(AdaptStep /\ SlowDown(stats.quality_scores)) => RLeq(delay, delay')]_vars

====
